---- MODULE Spec2Model ----
(***************************************************************************)
(* Token lifecycle, attempt rate limiter and idempotent task creation of   *)
(* the Telegram -> Todoist bot (src/app/database.py, src/app/main.py,      *)
(* src/app/todoist_client.py).                                             *)
(*                                                                         *)
(* Time is the SQLite CURRENT_TIMESTAMP, which has a resolution of one     *)
(* second: `now' counts seconds.  A table is the set of its rows.          *)
(***************************************************************************)
EXTENDS Integers, Sequences, FiniteSets, TLC

VARIABLES
    now,                  \* CURRENT_TIMESTAMP of the storage medium, in seconds
    ticks,                \* history: number of clock advances so far
    token_attempts,       \* rows of table token_attempts
    limiter_initialized,  \* rate_limiter._initialized
    recorded,             \* history: record_attempt calls made per identity
    user_tokens,          \* rows of table user_tokens
    storage_initialized,  \* user_storage._initialized
    last_write,           \* history: per identity, the token of the last
                          \*   completed store_token, None after remove_token
    call,                 \* per caller, its call of a user_storage method
    store_calls,          \* history: calls of user_storage methods so far
    handler,              \* per logical task, the handle_message it runs
    todoist_tasks,        \* the tasks the Todoist service holds
    probed,               \* history: <<identity, token>> of accepted probes
    create_calls,         \* history: the POST /tasks calls made
    created_for,          \* history: the inbound message each task came from
    deliveries,           \* history: inbound messages delivered so far
    one_client,           \* a TodoistClient value that several calls are made on
    client_log,           \* history: the calls made on one_client, in order
    storage_fault,        \* what is wrong with the storage medium, "none" if nothing
    keyed                 \* history: the inbound messages given an idempotency
                          \*   key, each with its key, in order

clockState == <<now, ticks>>

limiterState == <<token_attempts, limiter_initialized, recorded>>

storeState == <<user_tokens, storage_initialized, last_write>>

callState == <<call, store_calls>>

botState == <<handler, todoist_tasks, probed, create_calls, created_for, deliveries>>

clientState == <<one_client, client_log>>

faultState == <<storage_fault>>

keyState == <<keyed>>

vars == <<now, ticks, token_attempts, limiter_initialized, recorded,
          user_tokens, storage_initialized, last_write, call, store_calls,
          handler, todoist_tasks, probed, create_calls, created_for, deliveries,
          one_client, client_log, storage_fault, keyed>>

(***************************************************************************)
(* Values and bounds.                                                      *)
(***************************************************************************)
\* Python None, SQL "no row".  Texts are sequences of characters, and no
\* character is "None", so None is no text (not even the empty one).
None == <<"None">>

\* Telegram user ids (message.from_user.id) the model draws from
Users == {1, 12}

\* Amounts by which the clock advances in one step: a second, the announced
\* retry delay (timeout_minutes), the retention period (days)
TickSizes == {1, 120, 86400}

\* Clock advances in one behaviour
MaxTicks == 4

\* record_attempt calls in one behaviour
MaxCalls == 4

\* rate_limiter = TokenRateLimiter(max_attempts=4, timeout_minutes=2)
max_attempts == 4

timeout_minutes == 2

\* cleanup_old_attempts(self, telegram_user_id, days=1)
days == 1

SecondsPerMinute == 60

SecondsPerDay == 86400

(***************************************************************************)
(* TokenRateLimiter (src/app/database.py)                                  *)
(***************************************************************************)
\* The rows of one identity
AttemptsOf(rows, telegram_user_id) ==
    {r \in rows : r.telegram_user_id = telegram_user_id}

\* SELECT COUNT(*) ... WHERE telegram_user_id = ?
\*   AND (strftime('%s', CURRENT_TIMESTAMP) - strftime('%s', attempt_time)) / 60 <= ?
\* Both operands of "/" are integers, so SQLite divides with truncation.
get_recent_attempts(rows, clock, telegram_user_id, minutes) ==
    Cardinality({r \in AttemptsOf(rows, telegram_user_id) :
                    ((clock - r.attempt_time) \div SecondsPerMinute) <= minutes})

\* The two advisory f-strings of can_attempt, by their parts
LockoutMessage == <<"lockout", max_attempts, timeout_minutes>>

RemainingMessage(remaining) == <<"remaining", remaining>>

\* A plausible slip: the warning starts when one attempt is left
can_attempt_warning_at_one(rows, clock, telegram_user_id) ==
    LET recent_attempts ==
            get_recent_attempts(rows, clock, telegram_user_id, timeout_minutes)
        remaining == max_attempts - recent_attempts
    IN  IF recent_attempts >= max_attempts
        THEN [allowed |-> FALSE, message |-> LockoutMessage]
        ELSE IF remaining < 2
             THEN [allowed |-> TRUE, message |-> RemainingMessage(remaining)]
             ELSE [allowed |-> TRUE, message |-> <<>>]

can_attempt(rows, clock, telegram_user_id) ==
    LET recent_attempts ==
            get_recent_attempts(rows, clock, telegram_user_id, timeout_minutes)
        remaining == max_attempts - recent_attempts
    IN  IF recent_attempts >= max_attempts
        THEN [allowed |-> FALSE, message |-> LockoutMessage]
        ELSE IF remaining <= 2
             THEN [allowed |-> TRUE, message |-> RemainingMessage(remaining)]
             ELSE [allowed |-> TRUE, message |-> <<>>]

\* INSERT INTO token_attempts (telegram_user_id, success) VALUES (?, ?)
\* attempt_time defaults to CURRENT_TIMESTAMP and the primary key is
\* (telegram_user_id, attempt_time): a second row of the same identity in the
\* same second violates it, and the except clause only logs the error.
record_token_attempt(rows, clock, telegram_user_id, success) ==
    IF \E r \in rows : /\ r.telegram_user_id = telegram_user_id
                       /\ r.attempt_time = clock
    THEN rows
    ELSE rows \cup {[telegram_user_id |-> telegram_user_id,
                     attempt_time |-> clock,
                     success |-> success]}

\* A plausible slip: the DELETE without its telegram_user_id filter
cleanup_old_attempts_of_everyone(rows, clock, telegram_user_id, age_days) ==
    {r \in rows :
        ~ (\/ r.success = FALSE
           \/ clock - r.attempt_time > age_days * SecondsPerDay)}

\* DELETE FROM token_attempts WHERE telegram_user_id = ?
\*   AND (success = FALSE OR JULIANDAY(CURRENT_TIMESTAMP) - JULIANDAY(attempt_time) > ?)
cleanup_old_attempts(rows, clock, telegram_user_id, age_days) ==
    {r \in rows :
        ~ (/\ r.telegram_user_id = telegram_user_id
           /\ \/ r.success = FALSE
              \/ clock - r.attempt_time > age_days * SecondsPerDay)}

record_attempt(rows, clock, telegram_user_id, success) ==
    LET inserted == record_token_attempt(rows, clock, telegram_user_id, success)
    IN  IF success
        THEN cleanup_old_attempts(inserted, clock, telegram_user_id, days)
        ELSE inserted

LimiterInit ==
    /\ token_attempts = {}
    /\ limiter_initialized = FALSE
    /\ recorded = [u \in Users |-> [failed |-> 0, succeeded |-> 0]]

RECURSIVE SumOver(_, _)
SumOver(f, S) ==
    IF S = {} THEN 0
    ELSE LET x == CHOOSE y \in S : TRUE IN f[x] + SumOver(f, S \ {x})

\* record_attempt calls made so far, all identities together
TotalRecorded ==
    SumOver([u \in Users |-> recorded[u].failed + recorded[u].succeeded], Users)

\* TokenRateLimiter._ensure_table_exists: returns at once when _initialized,
\* else connects and creates the table; a failure of either propagates and
\* leaves _initialized False.  `fault' is what is wrong with the storage
\* medium: "connect", "create_table", "statement", or "none".
limiter_ensure_table_exists(initialized, fault) ==
    IF initialized
    THEN [raised |-> FALSE, initialized |-> TRUE]
    ELSE IF fault \in {"connect", "create_table"}
    THEN [raised |-> TRUE, initialized |-> FALSE]
    ELSE [raised |-> FALSE, initialized |-> TRUE]

\* Each method of the limiter awaits _ensure_table_exists and opens its own
\* connection before its try block
LimiterConnectRaises(initialized, fault) ==
    \/ limiter_ensure_table_exists(initialized, fault).raised
    \/ fault = "connect"

\* A plausible slip: a failed count refuses the attempt
can_attempt_call_failing_closed(fault, initialized, rows, clock, telegram_user_id) ==
    IF LimiterConnectRaises(initialized, fault)
    THEN [raised |-> TRUE, allowed |-> FALSE, message |-> <<>>,
          initialized |->
              limiter_ensure_table_exists(initialized, fault).initialized]
    ELSE IF fault = "statement"
    THEN [raised |-> FALSE, allowed |-> FALSE, message |-> LockoutMessage,
          initialized |-> TRUE]
    ELSE [raised |-> FALSE,
          allowed |-> can_attempt(rows, clock, telegram_user_id).allowed,
          message |-> can_attempt(rows, clock, telegram_user_id).message,
          initialized |-> TRUE]

\* can_attempt as a whole: get_recent_attempts returns 0 when its query
\* raises (except Exception: log, return 0), which is the count of an empty
\* log
can_attempt_call(fault, initialized, rows, clock, telegram_user_id) ==
    IF LimiterConnectRaises(initialized, fault)
    THEN [raised |-> TRUE, allowed |-> FALSE, message |-> <<>>,
          initialized |->
              limiter_ensure_table_exists(initialized, fault).initialized]
    ELSE IF fault = "statement"
    THEN [raised |-> FALSE,
          allowed |-> can_attempt({}, clock, telegram_user_id).allowed,
          message |-> can_attempt({}, clock, telegram_user_id).message,
          initialized |-> TRUE]
    ELSE [raised |-> FALSE,
          allowed |-> can_attempt(rows, clock, telegram_user_id).allowed,
          message |-> can_attempt(rows, clock, telegram_user_id).message,
          initialized |-> TRUE]

\* record_attempt as a whole: the INSERT of record_token_attempt and the
\* DELETE of cleanup_old_attempts only log what they raise
record_attempt_call(fault, initialized, rows, clock, telegram_user_id, success) ==
    IF LimiterConnectRaises(initialized, fault)
    THEN [raised |-> TRUE, rows |-> rows,
          initialized |->
              limiter_ensure_table_exists(initialized, fault).initialized]
    ELSE IF fault = "statement"
    THEN [raised |-> FALSE, rows |-> rows, initialized |-> TRUE]
    ELSE [raised |-> FALSE,
          rows |-> record_attempt(rows, clock, telegram_user_id, success),
          initialized |-> TRUE]

\* await rate_limiter.can_attempt(telegram_user_id)
CanAttempt(u) ==
    /\ can_attempt(token_attempts, now, u).allowed \in BOOLEAN
    /\ limiter_initialized' =
          can_attempt_call(storage_fault, limiter_initialized,
                           token_attempts, now, u).initialized
    /\ UNCHANGED <<keyState, clientState, faultState, token_attempts, recorded, clockState, storeState, callState, botState>>

\* await rate_limiter.record_attempt(telegram_user_id, success)
RecordAttempt(u, success) ==
    /\ TotalRecorded < MaxCalls
    /\ limiter_initialized' =
          record_attempt_call(storage_fault, limiter_initialized,
                              token_attempts, now, u, success).initialized
    /\ token_attempts' =
          record_attempt_call(storage_fault, limiter_initialized,
                              token_attempts, now, u, success).rows
    /\ recorded' = [recorded EXCEPT
                      ![u] = IF success
                             THEN [@ EXCEPT !.succeeded = @ + 1]
                             ELSE [@ EXCEPT !.failed = @ + 1]]
    /\ UNCHANGED <<keyState, clientState, faultState, clockState, storeState, callState, botState>>

\* The storage medium's clock advances
Tick(d) ==
    /\ ticks < MaxTicks
    /\ now' = now + d
    /\ ticks' = ticks + 1
    /\ UNCHANGED <<keyState, clientState, faultState, limiterState, storeState, callState, botState>>

(***************************************************************************)
(* UserTokenStorage (src/app/database.py)                                  *)
(***************************************************************************)
\* Todoist tokens: forty characters of [a-z0-9] each
TokenA == [i \in 1..40 |-> "a"]

TokenB == [i \in 1..40 |-> "b"]

Tokens == {TokenA, TokenB}

\* Concurrent callers of user_storage
NumCallers == 2

Callers == 1..NumCallers

\* The clock value up to which the storage calls are followed
MaxStoreNow == 1

\* Calls of user_storage methods in one behaviour
MaxStoreCalls == 3

\* WHERE telegram_user_id = ?
TokenRowsOf(rows, telegram_user_id) ==
    {r \in rows : r.telegram_user_id = telegram_user_id}

\* A plausible slip: INSERT OR IGNORE instead of ON CONFLICT DO UPDATE
store_token_keeping_first(rows, clock, telegram_user_id, todoist_token) ==
    [raised |-> FALSE,
     rows |-> IF TokenRowsOf(rows, telegram_user_id) # {}
              THEN rows
              ELSE rows \cup {[telegram_user_id |-> telegram_user_id,
                               todoist_token |-> todoist_token,
                               created_at |-> clock,
                               updated_at |-> clock]}]

\* A plausible slip: a plain INSERT, which the primary key refuses for an
\* identity that has a row (sqlite3.IntegrityError, re-raised by store_token)
store_token_plain_insert(rows, clock, telegram_user_id, todoist_token) ==
    IF TokenRowsOf(rows, telegram_user_id) # {}
    THEN [raised |-> TRUE, rows |-> rows]
    ELSE [raised |-> FALSE,
          rows |-> rows \cup {[telegram_user_id |-> telegram_user_id,
                               todoist_token |-> todoist_token,
                               created_at |-> clock,
                               updated_at |-> clock]}]

\* INSERT INTO user_tokens (telegram_user_id, todoist_token, created_at, updated_at)
\* VALUES (?, ?, CURRENT_TIMESTAMP, CURRENT_TIMESTAMP)
\* ON CONFLICT(telegram_user_id) DO UPDATE SET
\*     todoist_token = excluded.todoist_token, updated_at = CURRENT_TIMESTAMP
\* telegram_user_id is the PRIMARY KEY of user_tokens, so the statement never
\* fails on a duplicate: `raised' says whether store_token raised.
store_token(rows, clock, telegram_user_id, todoist_token) ==
    [raised |-> FALSE,
     rows |-> IF TokenRowsOf(rows, telegram_user_id) # {}
              THEN {IF r.telegram_user_id = telegram_user_id
                    THEN [r EXCEPT !.todoist_token = todoist_token,
                                   !.updated_at = clock]
                    ELSE r : r \in rows}
              ELSE rows \cup {[telegram_user_id |-> telegram_user_id,
                               todoist_token |-> todoist_token,
                               created_at |-> clock,
                               updated_at |-> clock]}]

\* A plausible slip: the SELECT has no WHERE clause
get_token_of_any_row(rows, telegram_user_id) ==
    IF rows = {} THEN None
    ELSE (CHOOSE r \in rows : TRUE).todoist_token

\* SELECT todoist_token FROM user_tokens WHERE telegram_user_id = ?
\* row = fetchone(); return row[0] if row else None
get_token(rows, telegram_user_id) ==
    LET found == TokenRowsOf(rows, telegram_user_id)
    IN  IF found = {} THEN None
        ELSE (CHOOSE r \in found : TRUE).todoist_token

\* A plausible slip: the existence query has no WHERE clause
has_token_of_any_row(rows, telegram_user_id) == rows # {}

\* SELECT 1 FROM user_tokens WHERE telegram_user_id = ?
\* return fetchone() is not None
has_token(rows, telegram_user_id) ==
    TokenRowsOf(rows, telegram_user_id) # {}

\* A plausible slip: return True whether or not a row was deleted
remove_token_always_true(rows, telegram_user_id) ==
    [rows |-> rows \ TokenRowsOf(rows, telegram_user_id), removed |-> TRUE]

\* DELETE FROM user_tokens WHERE telegram_user_id = ?
\* return cursor.rowcount > 0
remove_token(rows, telegram_user_id) ==
    LET found == TokenRowsOf(rows, telegram_user_id)
    IN  [rows |-> rows \ found, removed |-> Cardinality(found) > 0]

\* What can be wrong with the storage medium: the database file cannot be
\* opened (aiosqlite.connect raises), CREATE TABLE fails, or the statement of
\* the method (or its commit) fails
StorageFaults == {"connect", "create_table", "statement"}

FaultInit == storage_fault = "none"

\* await self._ensure_table_exists(): returns at once when _initialized, else
\* connects and creates the table; a failure of either propagates and leaves
\* _initialized False
ensure_table_exists(initialized, fault) ==
    IF initialized
    THEN [raised |-> FALSE, initialized |-> TRUE]
    ELSE IF fault \in {"connect", "create_table"}
    THEN [raised |-> TRUE, initialized |-> FALSE]
    ELSE [raised |-> FALSE, initialized |-> TRUE]

\* The method's own `async with aiosqlite.connect(...)' is outside its try
\* block: a failure to connect propagates from every method
ConnectRaises(initialized, fault) ==
    \/ ensure_table_exists(initialized, fault).raised
    \/ fault = "connect"

\* A plausible slip: store_token logs the error and returns, as get_token,
\* has_token and remove_token do
store_token_call_swallowing(fault, initialized, rows, clock, telegram_user_id, todoist_token) ==
    IF ConnectRaises(initialized, fault)
    THEN [raised |-> TRUE, rows |-> rows,
          initialized |-> ensure_table_exists(initialized, fault).initialized]
    ELSE IF fault = "statement"
    THEN [raised |-> FALSE, rows |-> rows, initialized |-> TRUE]
    ELSE [raised |-> store_token(rows, clock, telegram_user_id, todoist_token).raised,
          rows |-> store_token(rows, clock, telegram_user_id, todoist_token).rows,
          initialized |-> TRUE]

\* store_token as a whole: except Exception: log, raise
store_token_call(fault, initialized, rows, clock, telegram_user_id, todoist_token) ==
    IF ConnectRaises(initialized, fault)
    THEN [raised |-> TRUE, rows |-> rows,
          initialized |-> ensure_table_exists(initialized, fault).initialized]
    ELSE IF fault = "statement"
    THEN [raised |-> TRUE, rows |-> rows, initialized |-> TRUE]
    ELSE [raised |-> store_token(rows, clock, telegram_user_id, todoist_token).raised,
          rows |-> store_token(rows, clock, telegram_user_id, todoist_token).rows,
          initialized |-> TRUE]

\* get_token as a whole: except Exception: log, return None
get_token_call(fault, initialized, rows, telegram_user_id) ==
    IF ConnectRaises(initialized, fault)
    THEN [raised |-> TRUE, value |-> None,
          initialized |-> ensure_table_exists(initialized, fault).initialized]
    ELSE IF fault = "statement"
    THEN [raised |-> FALSE, value |-> None, initialized |-> TRUE]
    ELSE [raised |-> FALSE, value |-> get_token(rows, telegram_user_id),
          initialized |-> TRUE]

\* has_token as a whole: except Exception: log, return False
has_token_call(fault, initialized, rows, telegram_user_id) ==
    IF ConnectRaises(initialized, fault)
    THEN [raised |-> TRUE, value |-> FALSE,
          initialized |-> ensure_table_exists(initialized, fault).initialized]
    ELSE IF fault = "statement"
    THEN [raised |-> FALSE, value |-> FALSE, initialized |-> TRUE]
    ELSE [raised |-> FALSE, value |-> has_token(rows, telegram_user_id),
          initialized |-> TRUE]

\* remove_token as a whole: except Exception: log, return False
remove_token_call(fault, initialized, rows, telegram_user_id) ==
    IF ConnectRaises(initialized, fault)
    THEN [raised |-> TRUE, value |-> FALSE, rows |-> rows,
          initialized |-> ensure_table_exists(initialized, fault).initialized]
    ELSE IF fault = "statement"
    THEN [raised |-> FALSE, value |-> FALSE, rows |-> rows, initialized |-> TRUE]
    ELSE [raised |-> FALSE,
          value |-> remove_token(rows, telegram_user_id).removed,
          rows |-> remove_token(rows, telegram_user_id).rows,
          initialized |-> TRUE]

\* A caller that has not called yet
NoCall ==
    [op |-> "none", telegram_user_id |-> 0, todoist_token |-> None,
     state |-> "idle", result |-> None, raised |-> FALSE, raced |-> FALSE]

StoreInit ==
    /\ user_tokens = {}
    /\ storage_initialized = FALSE
    /\ last_write = [u \in Users |-> None]
    /\ call = [c \in Callers |-> NoCall]
    /\ store_calls = 0

Pending(c, op) ==
    /\ call[c].state = "pending"
    /\ call[c].op = op

Returned(c, op) ==
    /\ call[c].state = "returned"
    /\ call[c].op = op

\* A caller invokes a method of user_storage; the coroutine is suspended at
\* its first await until the statement runs.
StoreCall(c, op, u, tok) ==
    /\ call[c].state \in {"idle", "returned"}
    /\ store_calls < MaxStoreCalls
    /\ store_calls' = store_calls + 1
    /\ call' = [call EXCEPT ![c] =
                  [op |-> op, telegram_user_id |-> u, todoist_token |-> tok,
                   state |-> "pending", result |-> None, raised |-> FALSE,
                   raced |-> FALSE]]
    /\ UNCHANGED <<keyState, clientState, faultState, clockState, limiterState, storeState, botState>>

\* await user_storage.store_token(telegram_user_id, todoist_token):
\* _ensure_table_exists, the upsert and its commit
StoreToken(c) ==
    LET done == store_token(user_tokens, now, call[c].telegram_user_id,
                            call[c].todoist_token)
    IN
    /\ Pending(c, "store_token")
    /\ storage_initialized' = TRUE
    /\ user_tokens' = done.rows
    /\ last_write' = [last_write EXCEPT
                        ![call[c].telegram_user_id] = call[c].todoist_token]
    /\ call' = [call EXCEPT
                  ![c].state = "returned",
                  ![c].raised = done.raised,
                  ![c].raced = \E d \in Callers \ {c} :
                                  /\ Pending(d, "store_token")
                                  /\ call[d].telegram_user_id
                                       = call[c].telegram_user_id]
    /\ UNCHANGED <<keyState, clientState, faultState, clockState, limiterState, store_calls, botState>>

\* await user_storage.get_token(telegram_user_id)
GetToken(c) ==
    /\ Pending(c, "get_token")
    /\ storage_initialized' = TRUE
    /\ call' = [call EXCEPT
                  ![c].state = "returned",
                  ![c].result = get_token(user_tokens, call[c].telegram_user_id)]
    /\ UNCHANGED <<keyState, clientState, faultState, clockState, limiterState, user_tokens, last_write, store_calls, botState>>

\* await user_storage.has_token(telegram_user_id)
HasToken(c) ==
    /\ Pending(c, "has_token")
    /\ storage_initialized' = TRUE
    /\ call' = [call EXCEPT
                  ![c].state = "returned",
                  ![c].result = has_token(user_tokens, call[c].telegram_user_id)]
    /\ UNCHANGED <<keyState, clientState, faultState, clockState, limiterState, user_tokens, last_write, store_calls, botState>>

\* await user_storage.remove_token(telegram_user_id)
RemoveToken(c) ==
    LET done == remove_token(user_tokens, call[c].telegram_user_id)
    IN  /\ Pending(c, "remove_token")
        /\ storage_initialized' = TRUE
        /\ user_tokens' = done.rows
        /\ last_write' = [last_write EXCEPT ![call[c].telegram_user_id] = None]
        /\ call' = [call EXCEPT ![c].state = "returned",
                                ![c].result = done.removed]
        /\ UNCHANGED <<keyState, clientState, faultState, clockState, limiterState, store_calls, botState>>

\* The clock advances by a second while storage calls are followed
StoreTick ==
    /\ now < MaxStoreNow
    /\ Tick(1)

StoreOps == {"store_token", "get_token", "has_token", "remove_token"}

StoreNext ==
    \/ \E c \in Callers, op \in StoreOps, u \in Users :
          \E tok \in IF op = "store_token" THEN Tokens ELSE {None} :
              StoreCall(c, op, u, tok)
    \/ \E c \in Callers : StoreToken(c)
    \/ \E c \in Callers : GetToken(c)
    \/ \E c \in Callers : HasToken(c)
    \/ \E c \in Callers : RemoveToken(c)
    \/ StoreTick

(***************************************************************************)
(* Texts                                                                   *)
(***************************************************************************)
Lower ==
    {"a", "b", "c", "d", "e", "f", "g", "h", "i", "j", "k", "l", "m",
     "n", "o", "p", "q", "r", "s", "t", "u", "v", "w", "x", "y", "z"}

Digit == {"0", "1", "2", "3", "4", "5", "6", "7", "8", "9"}

\* str(n) of a non-negative int
RECURSIVE Str(_)
Str(n) ==
    LET last == <<"0", "1", "2", "3", "4", "5", "6", "7", "8", "9">>[(n % 10) + 1]
    IN  IF n < 10 THEN <<last>> ELSE Str(n \div 10) \o <<last>>

\* The character class [a-z\d] of token_regex
TokenChars == Lower \cup Digit

\* token_regex = re.compile('^[a-z\\d]{40}$'); token_regex.search(message_text)
\* "$" also matches before a newline that ends the text.
token_regex_search(message_text) ==
    /\ \/ Len(message_text) = 40
       \/ Len(message_text) = 41 /\ message_text[41] = "\n"
    /\ \A i \in 1..40 : message_text[i] \in TokenChars

\* A text of forty token characters that the Todoist service does not know
TokenBad == [i \in 1..40 |-> "0"]

BuyMilk == <<"B", "u", "y", " ", "m", "i", "l", "k">>

\* Telegram message ids (message.message_id) the model draws from
MessageIds == {3, 5, 7, 23}

\* message.text of each inbound message: a redelivered message has the text
\* it had
TextOf(message_id) ==
    CASE message_id = 3 -> TokenA
      [] message_id = 5 -> TokenB
      [] message_id = 7 -> TokenBad
      [] OTHER -> BuyMilk

Inbox ==
    {[from_user |-> u, message_id |-> m, text |-> TextOf(m)] :
        u \in Users, m \in MessageIds}

(***************************************************************************)
(* The Todoist service, as the client sees it.  A stub that creates tasks  *)
(* and de-duplicates create calls by their X-Request-Id.                   *)
(***************************************************************************)
\* Tokens the service accepts
ValidTokens == {TokenA, TokenB}

Bearer(token) == <<"B", "e", "a", "r", "e", "r", " ">> \o token

Authorized(headers) ==
    \E token \in ValidTokens : headers["Authorization"] = Bearer(token)

\* What a call can end with, other than an HTTP response
Timeout == [kind |-> "timeout"]

ConnectError == [kind |-> "connect_error"]

Response(status_code, json) ==
    [kind |-> "response", status_code |-> status_code, json |-> json]

\* The task the stub holds for an X-Request-Id it has seen
TaskWithKey(tasks, headers) ==
    IF "X-Request-Id" \in DOMAIN headers
    THEN {t \in tasks : t.request_id = headers["X-Request-Id"]}
    ELSE {}

\* The task a create call makes: ids are handed out in order
NewTask(tasks, headers, task_data) ==
    [id |-> Str(Cardinality(tasks) + 1),
     content |-> task_data.content,
     priority |-> task_data.priority,
     request_id |-> IF "X-Request-Id" \in DOMAIN headers
                    THEN headers["X-Request-Id"] ELSE None]

\* The tasks the stub holds after POST /tasks has reached it
ServiceTasksAfterCreate(tasks, headers, task_data) ==
    IF ~Authorized(headers) \/ TaskWithKey(tasks, headers) # {}
    THEN tasks
    ELSE tasks \cup {NewTask(tasks, headers, task_data)}

\* The JSON of a task
TaskJson(t) ==
    [id |-> t.id, content |-> t.content, project_id |-> <<"i", "n", "b", "o", "x">>,
     priority |-> t.priority, due |-> None, url |-> <<"u", "r", "l", "/">> \o t.id]

\* The answers POST /tasks can get once it has reached the service: the task
\* (the one held for the key, else the new one), the same with a field
\* missing, an error status, or no answer in time
CreateAnswers(tasks, headers, task_data) ==
    IF ~Authorized(headers)
    THEN {Response(401, None)}
    ELSE LET held == TaskWithKey(tasks, headers)
             t == IF held # {} THEN CHOOSE x \in held : TRUE
                  ELSE NewTask(tasks, headers, task_data)
         IN  {Response(200, TaskJson(t)),
              Response(200, [id |-> t.id, content |-> t.content]),
              Timeout}

\* The answers of a call that did not reach the service, or that it refused
Failures == {Timeout, ConnectError, Response(403, None), Response(500, None)}

\* The answers GET /projects can get
ProjectsAnswers(headers) ==
    Failures \cup
        (IF Authorized(headers)
         THEN {Response(200, <<>>)}
         ELSE {Response(401, None)})

(***************************************************************************)
(* TodoistClient (src/app/todoist_client.py), TodoistTask                  *)
(***************************************************************************)
\* TodoistClient.__init__
TodoistClient(token) ==
    [token |-> token,
     headers |-> ("Authorization" :> Bearer(token))
                    @@ ("Content-Type" :> <<"application/json">>)]

\* TodoistTask(content=..., priority=..., request_id=...)
TodoistTask(content, priority, request_id) ==
    [content |-> content, project_id |-> None, due_date |-> None,
     due_string |-> None, priority |-> priority, request_id |-> request_id]

\* priority: int = 2
default_priority == 2

\* The defaults of the optional fields of TodoistTask
TodoistTaskDefaults ==
    [project_id |-> None, due_date |-> None, due_string |-> None,
     priority |-> default_priority, request_id |-> None]

\* TodoistTask(**kwargs): the fields given, the defaults for the others
TodoistTaskFrom(kwargs) ==
    [f \in {"content"} \cup DOMAIN TodoistTaskDefaults |->
        IF f \in DOMAIN kwargs THEN kwargs[f] ELSE TodoistTaskDefaults[f]]

\* Python truth of an Optional[str]
Truthy(text) == text # None /\ text # <<>>

\* task_data of create_task
task_data_of(task) ==
    LET required == ("content" :> task.content) @@ ("priority" :> task.priority)
        optional == {k \in {"project_id", "due_date", "due_string"} : Truthy(task[k])}
    IN  [k \in {"content", "priority"} \cup optional |->
            IF k \in DOMAIN required THEN required[k] ELSE task[k]]

\* A plausible slip: the request id is never attached
create_task_headers_without_key(headers, task) == headers

\* if task.request_id: self.headers["X-Request-Id"] = task.request_id
create_task_headers(headers, task) ==
    IF Truthy(task.request_id)
    THEN [k \in DOMAIN headers \cup {"X-Request-Id"} |->
            IF k = "X-Request-Id" THEN task.request_id ELSE headers[k]]
    ELSE headers

\* A raised exception, with its message
ValueError(message) == [ok |-> FALSE, error |-> message]

Return(value) == [ok |-> TRUE, value |-> value]

TaskFields == {"id", "content", "project_id", "priority", "url"}

\* A plausible slip: no except clause for httpx.HTTPStatusError, so that an
\* error status ends in the last except clause
create_task_result_folding(answer) ==
    IF answer.kind = "timeout"
    THEN [ok |-> FALSE,
          error |-> <<"Todoist service is currently unavailable (timeout)">>]
    ELSE IF answer.kind = "response" /\ answer.status_code < 400
                /\ {"id", "content", "project_id", "priority", "url"}
                        \subseteq DOMAIN answer.json
    THEN [ok |-> TRUE,
          value |-> [id |-> answer.json.id,
                     content |-> answer.json.content,
                     project_id |-> answer.json.project_id,
                     priority |-> answer.json.priority,
                     due |-> IF "due" \in DOMAIN answer.json
                             THEN answer.json.due ELSE None,
                     url |-> answer.json.url]]
    ELSE [ok |-> FALSE, error |-> <<"Failed to create task in Todoist">>]

\* What create_task makes of the answer to its POST
create_task_result(answer) ==
    IF answer.kind = "timeout"
    THEN ValueError(<<"Todoist service is currently unavailable (timeout)">>)
    ELSE IF answer.kind = "connect_error"
    THEN ValueError(<<"Failed to create task in Todoist">>)
    ELSE IF answer.status_code >= 400
    THEN IF answer.status_code = 401
         THEN ValueError(<<"Invalid Todoist API token">>)
         ELSE IF answer.status_code = 403
         THEN ValueError(<<"Access denied to Todoist API">>)
         ELSE ValueError(<<"Todoist API error: ", answer.status_code>>)
    ELSE IF TaskFields \subseteq DOMAIN answer.json
    THEN Return([id |-> answer.json.id,
                 content |-> answer.json.content,
                 project_id |-> answer.json.project_id,
                 priority |-> answer.json.priority,
                 due |-> IF "due" \in DOMAIN answer.json
                         THEN answer.json.due ELSE None,
                 url |-> answer.json.url])
    ELSE ValueError(<<"Failed to create task in Todoist">>)

\* A plausible slip: the probe's exception is swallowed
get_projects_result_swallowing(answer) == Return(<<>>)

\* What get_projects makes of the answer to its GET
get_projects_result(answer) ==
    IF answer.kind = "response" /\ answer.status_code < 400
    THEN Return(answer.json)
    ELSE ValueError(<<"Failed to fetch projects from Todoist">>)

\* request_id=f"tg_{user_id}_{message.message_id}"
\* A plausible slip: the two ids written one after the other
request_id_without_separator(user_id, message_id) ==
    <<"t", "g", "_">> \o Str(user_id) \o Str(message_id)

request_id(user_id, message_id) ==
    <<"t", "g", "_">> \o Str(user_id) \o <<"_">> \o Str(message_id)

(***************************************************************************)
(* The idempotency key of an inbound message, on its way from              *)
(* handle_message into the headers of the create call.                     *)
(***************************************************************************)
\* The ids tried: all non-negative integers up to these
MaxUserId == 12
MaxMessageId == 23

UserIds == 0..MaxUserId
MessageIdValues == 0..MaxMessageId

KeyInit == keyed = <<>>

\* main.py:140-143 builds the task with request_id=f"tg_{user_id}_{message_id}"
\* and create_task copies it into the X-Request-Id header; two messages are
\* followed
MakeRequestId(user_id, message_id) ==
    LET task == TodoistTask(BuyMilk, 3, request_id(user_id, message_id))
    IN  /\ Len(keyed) < 2
        /\ keyed' = Append(keyed,
              [user_id |-> user_id, message_id |-> message_id,
               key |-> create_task_headers(TodoistClient(TokenA).headers,
                                           task)["X-Request-Id"]])
        /\ UNCHANGED <<clientState, faultState, clockState, limiterState,
                       storeState, callState, botState>>

(***************************************************************************)
(* Calls made one after the other on one TodoistClient value               *)
(***************************************************************************)
\* Calls made on the client value in one behaviour
MaxClientCalls == 2

\* No client value has been constructed
NoClient == [token |-> None, headers |-> <<>>]

\* The tokens a client value is constructed with
ClientTokens == {TokenA, TokenBad}

\* task.request_id of the tasks handed to create_task: none, or a key
RequestIds == {None, request_id(1, 23), request_id(12, 3)}

\* The keyword arguments the tasks handed to create_task are built from:
\* with a priority and a request_id, with a priority only, with neither
ClientTaskArgs ==
    {[content |-> BuyMilk, priority |-> 3, request_id |-> k] : k \in RequestIds}
        \cup {[content |-> BuyMilk, priority |-> 4], [content |-> BuyMilk]}

ClientTasks == {TodoistTaskFrom(kwargs) : kwargs \in ClientTaskArgs}

\* The error statuses the service can answer any call with
ErrorAnswers ==
    {Response(401, None), Response(403, None), Response(404, None),
     Response(500, None)}

\* The ends of a call that did not get to the service
Unreached == {Timeout, ConnectError}

ClientInit ==
    /\ one_client = NoClient
    /\ client_log = <<>>

\* TodoistClient(token)
NewClient(token) ==
    /\ one_client.token = None
    /\ one_client' = TodoistClient(token)
    /\ UNCHANGED <<keyState, client_log, clockState, limiterState, storeState, callState,
                   botState, faultState>>

\* await one_client.create_task(task): the header update, the POST and what
\* is made of its answer
ClientCreateTask(kwargs) ==
    LET task == TodoistTaskFrom(kwargs)
        headers == create_task_headers(one_client.headers, task)
        json == task_data_of(task)
    IN  /\ one_client.token # None
        /\ Len(client_log) < MaxClientCalls
        /\ one_client' = [one_client EXCEPT !.headers = headers]
        /\ \E reached \in BOOLEAN :
              /\ todoist_tasks' =
                    IF reached
                    THEN ServiceTasksAfterCreate(todoist_tasks, headers, json)
                    ELSE todoist_tasks
              /\ \E answer \in IF reached
                               THEN CreateAnswers(todoist_tasks, headers, json)
                                        \cup ErrorAnswers
                               ELSE Unreached :
                    client_log' = Append(client_log,
                        [op |-> "create_task",
                         kwargs |-> kwargs,
                         task |-> task,
                         requests |-> <<[method |-> "POST",
                                         headers |-> headers,
                                         json |-> json]>>,
                         answer |-> answer,
                         result |-> create_task_result(answer)])
        /\ UNCHANGED <<keyState, clockState, limiterState, storeState, callState,
                       handler, probed, create_calls, created_for, deliveries,
                       faultState>>

\* await one_client.get_projects(): the GET and what is made of its answer
ClientGetProjects ==
    /\ one_client.token # None
    /\ Len(client_log) < MaxClientCalls
    /\ \E answer \in ProjectsAnswers(one_client.headers) \cup ErrorAnswers :
          client_log' = Append(client_log,
              [op |-> "get_projects",
               kwargs |-> None,
               task |-> None,
               requests |-> <<[method |-> "GET",
                               headers |-> one_client.headers,
                               json |-> None]>>,
               answer |-> answer,
               result |-> get_projects_result(answer)])
    /\ UNCHANGED <<keyState, one_client, clockState, limiterState, storeState, callState,
                   botState, faultState>>

ClientNext ==
    \/ \E token \in ClientTokens : NewClient(token)
    \/ \E kwargs \in ClientTaskArgs : ClientCreateTask(kwargs)
    \/ ClientGetProjects

(***************************************************************************)
(* handle_message (src/app/main.py): one logical task per inbound message, *)
(* a step per await.                                                       *)
(***************************************************************************)
\* Logical tasks that handle inbound messages concurrently
NumTasks == 2

Tasks == 1..NumTasks

\* Inbound messages delivered in one behaviour
MaxDeliveries == 3

NoMessage == [from_user |-> 0, message_id |-> 0, text |-> <<>>]

\* A task that handles no message
NoHandler ==
    [pc |-> "idle", message |-> NoMessage, todoist_token |-> None,
     reply |-> None, raced |-> FALSE, removed_meanwhile |-> FALSE]

BotInit ==
    /\ handler = [t \in Tasks |-> NoHandler]
    /\ todoist_tasks = {}
    /\ probed = {}
    /\ create_calls = {}
    /\ created_for = {}
    /\ deliveries = 0

\* An exception that leaves handle_message: the bot logs it and the user gets
\* no reply
UnhandledException == <<"unhandled_exception", <<"sqlite3.Error">>>>

\* Telegram delivers a message (again, when it is a duplicate delivery):
\* user_id, message_text and the test of token_regex
Receive(t, message) ==
    /\ handler[t].pc \in {"idle", "done"}
    /\ deliveries < MaxDeliveries
    /\ deliveries' = deliveries + 1
    /\ handler' = [handler EXCEPT ![t] =
                     [NoHandler EXCEPT
                        !.pc = IF token_regex_search(message.text)
                               THEN "get_projects" ELSE "has_token",
                        !.message = message]]
    /\ UNCHANGED <<keyState, clientState, faultState, clockState, limiterState, storeState, callState,
                   todoist_tasks, probed, create_calls, created_for>>

\* The service answered the probe with its list of projects
ProbeAccepted(answer) ==
    answer.kind = "response" /\ answer.status_code = 200

\* todoist_client = TodoistClient(message_text); await todoist_client.get_projects()
GetProjects(t) ==
    /\ handler[t].pc = "get_projects"
    /\ \E answer \in ProjectsAnswers(TodoistClient(handler[t].message.text).headers) :
          LET result == get_projects_result(answer)
          IN  /\ probed' = IF ProbeAccepted(answer)
                           THEN probed \cup {<<handler[t].message.from_user,
                                               handler[t].message.text>>}
                           ELSE probed
              /\ handler' = [handler EXCEPT ![t] =
                               IF result.ok
                               THEN [@ EXCEPT !.pc = "store_token"]
                               ELSE [@ EXCEPT !.pc = "done",
                                              !.reply = <<"invalid_token",
                                                          result.error>>]]
    /\ UNCHANGED <<keyState, clientState, faultState, clockState, limiterState, storeState, callState,
                   todoist_tasks, create_calls, created_for, deliveries>>

\* A plausible slip: no return after the token is saved, so that
\* handle_message goes on to the task branch with the token text
StoreSubmittedToken_falling_through(t) ==
    LET done == store_token_call(storage_fault, storage_initialized,
                                 user_tokens, now,
                                 handler[t].message.from_user,
                                 handler[t].message.text)
    IN  /\ handler[t].pc = "store_token"
        /\ storage_initialized' = done.initialized
        /\ user_tokens' = done.rows
        /\ last_write' = [last_write EXCEPT
                            ![handler[t].message.from_user] =
                                IF done.raised THEN @ ELSE handler[t].message.text]
        /\ handler' = [handler EXCEPT
                         ![t].pc = IF done.raised THEN "done" ELSE "has_token",
                         ![t].reply = IF done.raised
                                      THEN <<"invalid_token", <<"sqlite3.Error">>>>
                                      ELSE <<"saved">>]
        /\ UNCHANGED <<keyState, clientState, faultState, clockState, limiterState, callState, todoist_tasks,
                       probed, create_calls, created_for, deliveries>>

\* await user_storage.store_token(user_id, message_text), and the reply
StoreSubmittedToken(t) ==
    LET done == store_token_call(storage_fault, storage_initialized,
                                 user_tokens, now,
                                 handler[t].message.from_user,
                                 handler[t].message.text)
    IN  /\ handler[t].pc = "store_token"
        /\ storage_initialized' = done.initialized
        /\ user_tokens' = done.rows
        /\ last_write' = [last_write EXCEPT
                            ![handler[t].message.from_user] =
                                IF done.raised THEN @ ELSE handler[t].message.text]
        /\ handler' = [handler EXCEPT
                         ![t].pc = "done",
                         ![t].reply = IF done.raised
                                      THEN <<"invalid_token", <<"sqlite3.Error">>>>
                                      ELSE <<"saved">>]
        /\ UNCHANGED <<keyState, clientState, faultState, clockState, limiterState, callState, todoist_tasks,
                       probed, create_calls, created_for, deliveries>>

\* if not await user_storage.has_token(user_id): reply and return
CheckHasToken(t) ==
    LET has == has_token_call(storage_fault, storage_initialized, user_tokens,
                              handler[t].message.from_user)
    IN
    /\ handler[t].pc = "has_token"
    /\ storage_initialized' = has.initialized
    /\ handler' = [handler EXCEPT ![t] =
                     IF has.raised
                     THEN [@ EXCEPT !.pc = "done", !.reply = UnhandledException]
                     ELSE IF has.value
                     THEN [@ EXCEPT !.pc = "get_token"]
                     ELSE [@ EXCEPT !.pc = "done", !.reply = <<"set_token_first">>]]
    /\ UNCHANGED <<keyState, clientState, faultState, clockState, limiterState, user_tokens, last_write, callState,
                   todoist_tasks, probed, create_calls, created_for, deliveries>>

\* todoist_token = await user_storage.get_token(user_id)
\* if not todoist_token: reply and return
ReadToken(t) ==
    LET got == get_token_call(storage_fault, storage_initialized, user_tokens,
                              handler[t].message.from_user)
        todoist_token == got.value
    IN  /\ handler[t].pc = "get_token"
        /\ storage_initialized' = got.initialized
        /\ handler' = [handler EXCEPT ![t] =
                         IF got.raised
                         THEN [@ EXCEPT !.pc = "done", !.reply = UnhandledException]
                         ELSE IF Truthy(todoist_token)
                         THEN [@ EXCEPT !.pc = "create_task",
                                        !.todoist_token = todoist_token]
                         ELSE [@ EXCEPT !.pc = "done", !.reply = <<"token_error">>]]
        /\ UNCHANGED <<keyState, clientState, faultState, clockState, limiterState, user_tokens, last_write,
                       callState, todoist_tasks, probed, create_calls,
                       created_for, deliveries>>

\* Another task is handling the same inbound message
Duplicate(t) ==
    \E other \in Tasks \ {t} :
        /\ handler[other].pc \notin {"idle", "done"}
        /\ handler[other].message = handler[t].message

\* todoist_client = TodoistClient(todoist_token)
\* task = TodoistTask(content=message_text, priority=3,
\*                    request_id=f"tg_{user_id}_{message.message_id}")
\* task_response = await todoist_client.create_task(task), and the reply
CreateTask(t) ==
    LET message == handler[t].message
        todoist_client == TodoistClient(handler[t].todoist_token)
        task == TodoistTask(message.text, 3,
                            request_id(message.from_user, message.message_id))
        headers == create_task_headers(todoist_client.headers, task)
        json == task_data_of(task)
    IN  /\ handler[t].pc = "create_task"
        /\ create_calls' = create_calls \cup
              {[from_user |-> message.from_user,
                message_id |-> message.message_id,
                headers |-> headers]}
        /\ \E reached \in BOOLEAN :
              /\ todoist_tasks' = IF reached
                                  THEN ServiceTasksAfterCreate(todoist_tasks, headers, json)
                                  ELSE todoist_tasks
              /\ created_for' = created_for \cup
                    {[id |-> new.id, from_user |-> message.from_user,
                      message_id |-> message.message_id] :
                        new \in todoist_tasks' \ todoist_tasks}
              /\ \E answer \in IF reached
                               THEN CreateAnswers(todoist_tasks, headers, json)
                               ELSE Failures :
                    LET result == create_task_result(answer)
                    IN  handler' = [handler EXCEPT
                            ![t].pc = "done",
                            ![t].todoist_token = None,
                            ![t].raced = Duplicate(t),
                            ![t].reply = IF result.ok
                                         THEN <<"created", result.value>>
                                         ELSE <<"create_error", result.error>>]
        /\ UNCHANGED <<keyState, clientState, faultState, clockState, limiterState, storeState, callState,
                       probed, deliveries>>

\* The steps of a handle_message that is running
HandlerSteps ==
    \/ \E t \in Tasks : GetProjects(t)
    \/ \E t \in Tasks : StoreSubmittedToken(t)
    \/ \E t \in Tasks : CheckHasToken(t)
    \/ \E t \in Tasks : ReadToken(t)
    \/ \E t \in Tasks : CreateTask(t)

BotNext ==
    \/ \E t \in Tasks, message \in Inbox : Receive(t, message)
    \/ HandlerSteps

(***************************************************************************)
(* The bot on a storage medium that can fail, with another caller of       *)
(* user_storage.remove_token                                               *)
(***************************************************************************)
\* The storage medium starts to fail
StorageFails(fault) ==
    /\ storage_fault = "none"
    /\ storage_fault' = fault
    /\ UNCHANGED <<keyState, clientState, clockState, limiterState, storeState,
                   callState, botState>>

\* The storage medium works again
StorageRecovers ==
    /\ storage_fault # "none"
    /\ storage_fault' = "none"
    /\ UNCHANGED <<keyState, clientState, clockState, limiterState, storeState,
                   callState, botState>>

\* await user_storage.remove_token(telegram_user_id), by a caller other than
\* handle_message
RemoveStoredToken(u) ==
    LET done == remove_token_call(storage_fault, storage_initialized,
                                  user_tokens, u)
    IN  /\ storage_initialized' = done.initialized
        /\ user_tokens' = done.rows
        /\ last_write' = [last_write EXCEPT
                            ![u] = IF TokenRowsOf(done.rows, u) = {}
                                   THEN None ELSE @]
        /\ handler' = [t \in Tasks |->
                         IF /\ handler[t].pc = "get_token"
                            /\ handler[t].message.from_user = u
                            /\ done.value
                         THEN [handler[t] EXCEPT !.removed_meanwhile = TRUE]
                         ELSE handler[t]]
        /\ UNCHANGED <<keyState, faultState, clientState, clockState, limiterState,
                       callState, todoist_tasks, probed, create_calls,
                       created_for, deliveries>>

\* The inbound messages followed on the failing medium: each identity submits
\* its token, and one of them sends a task text
OutageInbox ==
    {m \in Inbox : \/ m.from_user = 1 /\ m.message_id \in {3, 23}
                   \/ m.from_user = 12 /\ m.message_id = 5}

OutageNext ==
    \/ \E t \in Tasks, message \in OutageInbox : Receive(t, message)
    \/ HandlerSteps
    \/ \E fault \in StorageFaults : StorageFails(fault)
    \/ StorageRecovers
    \/ \E u \in Users : RemoveStoredToken(u)

Init ==
    /\ now = 0
    /\ ticks = 0
    /\ LimiterInit
    /\ StoreInit
    /\ BotInit
    /\ ClientInit
    /\ FaultInit
    /\ KeyInit

LimiterNext ==
    \/ \E u \in Users : CanAttempt(u)
    \/ \E u \in Users, success \in BOOLEAN : RecordAttempt(u, success)
    \/ \E d \in TickSizes : Tick(d)

SpecLimiter == Init /\ [][LimiterNext]_vars

\* The limiter of one identity on a storage medium that can fail, followed
\* second by second
LimiterOutageNext ==
    \/ CanAttempt(1)
    \/ \E success \in BOOLEAN : RecordAttempt(1, success)
    \/ Tick(1)
    \/ \E fault \in StorageFaults : StorageFails(fault)
    \/ StorageRecovers

SpecLimiterOutage == Init /\ [][LimiterOutageNext]_vars

\* The idempotency keys of two inbound messages, whatever their identities
KeyNext ==
    \E user_id \in UserIds, message_id \in MessageIdValues :
        MakeRequestId(user_id, message_id)

SpecKeys == Init /\ [][KeyNext]_vars

\* await rate_limiter.cleanup_old_attempts(telegram_user_id), called on its
\* own with the default age
CleanupOldAttempts(u) ==
    /\ limiter_initialized' = TRUE
    /\ token_attempts' = cleanup_old_attempts(token_attempts, now, u, days)
    /\ UNCHANGED <<keyState, clientState, faultState, recorded, clockState, storeState, callState, botState>>

\* The operations that write, of the token store and of the limiter, for
\* both identities and in any order, while the age of the cleanup passes
WriteOps == {"store_token", "remove_token"}

\* How far the isolation runs are followed
MaxIsolationAttempts == 2
MaxIsolationWrites == 2

IsolationNext ==
    \/ \E u \in Users, success \in BOOLEAN :
          /\ TotalRecorded < MaxIsolationAttempts
          /\ RecordAttempt(u, success)
    \/ \E u \in Users : CleanupOldAttempts(u)
    \/ \E op \in WriteOps, u \in Users, tok \in Tokens :
          /\ store_calls < MaxIsolationWrites
          /\ StoreCall(1, op, u, tok)
    \/ StoreToken(1)
    \/ RemoveToken(1)
    \/ /\ now < days * SecondsPerDay
       /\ Tick(days * SecondsPerDay)

SpecIsolation == Init /\ [][IsolationNext]_vars

SpecStore == Init /\ [][StoreNext]_vars

SpecBot == Init /\ [][BotNext]_vars

SpecClient == Init /\ [][ClientNext]_vars

SpecOutage == Init /\ [][OutageNext]_vars

(***************************************************************************)
(* Claims about the rate limiter, checked under SpecLimiter.               *)
(***************************************************************************)
\* Every record_attempt call so far lies inside the trailing window: the clock
\* started at 0 and has not yet advanced by timeout_minutes.
AllRecordedInWindow == now < timeout_minutes * SecondsPerMinute

\* C1: for every identity, with all N recorded attempts (successful or failed)
\* inside the window, can_attempt allows while N < max_attempts and refuses
\* with the lockout advisory once N = max_attempts.
C1_GateCountsEveryRecordedAttempt ==
    \A u \in Users :
        LET N == recorded[u].failed + recorded[u].succeeded
            verdict == can_attempt(token_attempts, now, u)
        IN  AllRecordedInWindow =>
              /\ (N < max_attempts => verdict.allowed)
              /\ (N = max_attempts =>
                    ~verdict.allowed /\ verdict.message = LockoutMessage)

\* C8: a completed record_attempt(identity, success=TRUE) leaves no failed
\* attempt and no attempt older than the retention in the identity's log,
\* keeps every successful attempt younger than the retention, and the attempt
\* just recorded is in the log.
C8_SuccessLeavesOnlyRecentSuccesses ==
    [][\A u \in Users :
         recorded'[u].succeeded = recorded[u].succeeded + 1 =>
            LET before == AttemptsOf(token_attempts, u)
                after == AttemptsOf(token_attempts', u)
            IN  /\ \A r \in after : r.success
                /\ \A r \in after : now - r.attempt_time <= days * SecondsPerDay
                /\ \A r \in before :
                      (r.success /\ now - r.attempt_time < days * SecondsPerDay)
                          => r \in after
                /\ [telegram_user_id |-> u, attempt_time |-> now,
                    success |-> TRUE] \in after]_vars

\* C9: every record_attempt(identity, success=FALSE) appends exactly one record
\* to the identity's log and deletes none, whatever is already in the log, so
\* the count seen by can_attempt rises by one.
C9_FailedAttemptAppendsOneRecord ==
    [][\A u \in Users :
         recorded'[u].failed = recorded[u].failed + 1 =>
            /\ token_attempts \subseteq token_attempts'
            /\ Cardinality(AttemptsOf(token_attempts', u))
                 = Cardinality(AttemptsOf(token_attempts, u)) + 1
            /\ get_recent_attempts(token_attempts', now, u, timeout_minutes)
                 = get_recent_attempts(token_attempts, now, u, timeout_minutes) + 1]_vars

\* C10: once timeout_minutes have elapsed since an identity's most recent
\* attempt, can_attempt allows it again.
C10_LockoutEndsAfterTimeout ==
    \A u \in Users :
        (\A r \in AttemptsOf(token_attempts, u) :
            now - r.attempt_time >= timeout_minutes * SecondsPerMinute)
        => can_attempt(token_attempts, now, u).allowed

\* The attempts of an identity that lie inside the trailing window of
\* timeout_minutes
InWindow(u) ==
    {r \in AttemptsOf(token_attempts, u) :
        now - r.attempt_time < timeout_minutes * SecondsPerMinute}

\* No attempt of the identity is at the edge of the window, where the window
\* of the advisory text and the one of the query differ (see C10)
WindowIsSharp(u) ==
    \A r \in AttemptsOf(token_attempts, u) :
        \/ now - r.attempt_time < timeout_minutes * SecondsPerMinute
        \/ now - r.attempt_time >= (timeout_minutes + 1) * SecondsPerMinute

FailsBeforeStatement ==
    \/ storage_fault = "connect"
    \/ storage_fault = "create_table" /\ ~limiter_initialized

\* The attempt log cannot be read or written: the medium fails in a way that
\* reaches the calls of the limiter (a table that cannot be created does not
\* matter once the table exists)
LogUnavailable ==
    \/ FailsBeforeStatement
    \/ storage_fault = "statement"

\* What can_attempt does for identity 1 in this state
Verdict ==
    can_attempt_call(storage_fault, limiter_initialized, token_attempts, now, 1)

\* C23: whenever the attempt log cannot be read or written, can_attempt
\* returns allowed with a count of 0, even for an identity with max_attempts
\* or more attempts in the window, and record_attempt drops the attempt, no
\* error reaching the caller and the log unchanged.
C23_FailsOpenOnEveryStorageError ==
    /\ [](LogUnavailable =>
            /\ ~Verdict.raised
            /\ Verdict.allowed
            /\ \A success \in BOOLEAN :
                  /\ ~record_attempt_call(storage_fault, limiter_initialized,
                                          token_attempts, now, 1, success).raised
                  /\ record_attempt_call(storage_fault, limiter_initialized,
                                         token_attempts, now, 1, success).rows
                       = token_attempts)
    /\ [][(LogUnavailable /\ recorded' # recorded)
            => token_attempts' = token_attempts]_vars

\* What the limiter does on a failing medium, kind by kind of failure:
\* when the count query of can_attempt fails, the count is taken as 0
\* and can_attempt returns (True, "") even for an identity with max_attempts
\* or more attempts in the window; when the statements of record_attempt
\* fail, the attempt is dropped, nothing is raised and the log is unchanged;
\* when the connection cannot be opened or the table cannot be created, both
\* calls raise and the log is unchanged.
C23_FailsOpenWhenTheStatementFails ==
    /\ []((storage_fault = "statement" /\ ~FailsBeforeStatement) =>
            /\ ~Verdict.raised
            /\ Verdict.allowed
            /\ Verdict.message = <<>>
            /\ \A success \in BOOLEAN :
                  ~record_attempt_call(storage_fault, limiter_initialized,
                                       token_attempts, now, 1, success).raised)
    /\ [](FailsBeforeStatement =>
            /\ Verdict.raised
            /\ \A success \in BOOLEAN :
                  record_attempt_call(storage_fault, limiter_initialized,
                                      token_attempts, now, 1, success).raised)
    /\ [][(LogUnavailable /\ recorded' # recorded)
            => token_attempts' = token_attempts]_vars

\* An identity that is locked out (max_attempts attempts in the window, so
\* refused when the medium works) is allowed because the count query fails
C23_Witness ==
    /\ storage_fault = "statement"
    /\ get_recent_attempts(token_attempts, now, 1, timeout_minutes) >= max_attempts
    /\ ~can_attempt(token_attempts, now, 1).allowed
    /\ ~Verdict.raised
    /\ Verdict.allowed

(***************************************************************************)
(* Claims about the isolation of identities, checked under SpecIsolation.  *)
(***************************************************************************)
\* The step completes an operation invoked for identity a
OperationFor(a) ==
    \/ \E success \in BOOLEAN : RecordAttempt(a, success)
    \/ CleanupOldAttempts(a)
    \/ /\ Pending(1, "store_token")
       /\ call[1].telegram_user_id = a
       /\ StoreToken(1)
    \/ /\ Pending(1, "remove_token")
       /\ call[1].telegram_user_id = a
       /\ RemoveToken(1)

\* C24: store_token, remove_token, record_attempt and cleanup_old_attempts
\* invoked for an identity leave the stored token, the attempt log and the
\* can_attempt result of every other identity unchanged, in every interleaving
\* of the operations of two identities; a stored token changes only in a
\* store_token or remove_token for its own identity, however much time passes.
C24_OperationsAreIsolatedPerIdentity ==
    [][/\ \A a \in Users :
            OperationFor(a) =>
                \A b \in Users \ {a} :
                    /\ TokenRowsOf(user_tokens', b) = TokenRowsOf(user_tokens, b)
                    /\ get_token(user_tokens', b) = get_token(user_tokens, b)
                    /\ AttemptsOf(token_attempts', b)
                         = AttemptsOf(token_attempts, b)
                    /\ can_attempt(token_attempts', now', b)
                         = can_attempt(token_attempts, now, b)
       /\ \A b \in Users :
            get_token(user_tokens', b) # get_token(user_tokens, b) =>
                /\ Pending(1, "store_token") \/ Pending(1, "remove_token")
                /\ call[1].telegram_user_id = b
                /\ call'[1].state = "returned"]_vars

\* A day has passed, identity 12 still has its token and its failed attempt,
\* and identity 1 has had a successful attempt (with its cleanup) and a
\* store_token
C24_Witness ==
    /\ now >= SecondsPerDay
    /\ get_token(user_tokens, 12) \in Tokens
    /\ \E r \in AttemptsOf(token_attempts, 12) :
          /\ ~r.success
          /\ r.attempt_time < now
    /\ \E r \in AttemptsOf(token_attempts, 1) : r.success
    /\ Returned(1, "store_token")
    /\ call[1].telegram_user_id = 1
    /\ get_token(user_tokens, 1) = call[1].todoist_token

(***************************************************************************)
(* Claims about the idempotency key, checked under SpecKeys.               *)
(***************************************************************************)
\* C25: the idempotency key is injective on (user identity, message
\* identity) for non-negative integer ids: two inbound messages that differ in
\* user identity or in message identity get different keys.
C25_KeyIsInjective ==
    \A i, j \in 1..Len(keyed) :
        keyed[i].key = keyed[j].key =>
            /\ keyed[i].user_id = keyed[j].user_id
            /\ keyed[i].message_id = keyed[j].message_id

\* The messages (1, 23) and (12, 3) have both been given a key
C25_Witness ==
    /\ Len(keyed) = 2
    /\ keyed[1].user_id = 1 /\ keyed[1].message_id = 23
    /\ keyed[2].user_id = 12 /\ keyed[2].message_id = 3
    /\ keyed[1].key # keyed[2].key

(***************************************************************************)
(* Claims about the token store, checked under SpecStore.                  *)
(***************************************************************************)
\* C5: after store_token(id, t) completes, get_token(id) returns t until the
\* next store_token or remove_token for id (the last write wins), and
\* get_token on an identity never stored, or removed, returns None.
C5_LastWriteWins ==
    /\ \A u \in Users : get_token(user_tokens, u) = last_write[u]
    /\ [][/\ \A u \in Users : get_token(user_tokens', u) = last_write'[u]
          /\ \A c \in Callers :
                (Pending(c, "get_token") /\ call'[c].state = "returned")
                    => call'[c].result = last_write[call[c].telegram_user_id]]_vars

\* A get_token that returned the second of two tokens stored for an identity
C5_Witness ==
    \E c, d \in Callers :
        /\ Returned(d, "store_token")
        /\ call[d].todoist_token = TokenA
        /\ Returned(c, "get_token")
        /\ call[c].telegram_user_id = call[d].telegram_user_id
        /\ call[c].result = TokenB
        /\ last_write[call[c].telegram_user_id] = TokenB

\* C6: remove_token on an identity with no stored token returns False and
\* changes nothing; on an identity with a stored token it returns True, and
\* afterwards get_token returns None, has_token returns False and a second
\* remove_token returns False.
C6_RemoveReportsAndDeletes ==
    [][\A c \in Callers :
         (Pending(c, "remove_token") /\ call'[c].state = "returned") =>
            LET u == call[c].telegram_user_id
            IN  /\ call'[c].result = (last_write[u] # None)
                /\ (last_write[u] = None => user_tokens' = user_tokens)
                /\ get_token(user_tokens', u) = None
                /\ ~has_token(user_tokens', u)
                /\ ~remove_token(user_tokens', u).removed]_vars

\* A remove_token that returned True and a later one, for the same identity,
\* that returned False
C6_Witness ==
    \E c, d \in Callers :
        /\ Returned(c, "remove_token")
        /\ call[c].result = TRUE
        /\ Returned(d, "remove_token")
        /\ call[d].result = FALSE
        /\ call[c].telegram_user_id = call[d].telegram_user_id

\* C7: the store holds at most one row per identity, also after two in-flight
\* store_token calls for the same identity interleave: the row's token is the
\* one written by one of them, and no store_token raises on the duplicate.
C7_OneTokenPerIdentity ==
    /\ \A u \in Users :
          /\ Cardinality(TokenRowsOf(user_tokens, u)) <= 1
          /\ \A r \in TokenRowsOf(user_tokens, u) : r.todoist_token = last_write[u]
    /\ \A c \in Callers : Returned(c, "store_token") => ~call[c].raised

\* Two store_token calls for one identity, with different tokens, that were in
\* flight together and have both completed
C7_Witness ==
    \E c, d \in Callers :
        /\ Returned(c, "store_token")
        /\ Returned(d, "store_token")
        /\ call[c].telegram_user_id = call[d].telegram_user_id
        /\ call[c].todoist_token # call[d].todoist_token
        /\ call[c].raced
        /\ Cardinality(TokenRowsOf(user_tokens, call[c].telegram_user_id)) = 1

\* C19: has_token is a projection of get_token: with storage available it is
\* true exactly when get_token returns a token (false before any store_token,
\* true after one, false after remove_token), a has_token call returns that
\* value, and neither has_token nor get_token changes the store.
C19_ExistsProjectsGet ==
    /\ [](\A u \in Users :
            /\ has_token(user_tokens, u) <=> get_token(user_tokens, u) # None
            /\ has_token(user_tokens, u) <=> last_write[u] # None)
    /\ [][\A c \in Callers :
            /\ (Pending(c, "has_token") /\ call'[c].state = "returned")
                => /\ user_tokens' = user_tokens
                   /\ call'[c].result
                        = (get_token(user_tokens, call[c].telegram_user_id) # None)
            /\ (Pending(c, "get_token") /\ call'[c].state = "returned")
                => user_tokens' = user_tokens]_vars

\* A has_token that returned True and a get_token that returned the token,
\* for an identity while another identity has no token
C19_Witness ==
    \E c, d \in Callers :
        /\ Returned(c, "has_token")
        /\ call[c].result = TRUE
        /\ Returned(d, "get_token")
        /\ call[d].telegram_user_id = call[c].telegram_user_id
        /\ call[d].result \in Tokens
        /\ \E u \in Users : ~has_token(user_tokens, u)

(***************************************************************************)
(* Claims about handle_message, checked under SpecBot.                     *)
(***************************************************************************)
\* The task has handled a token submission to its outcome
SubmissionDone(t) ==
    /\ handler[t].pc = "done"
    /\ token_regex_search(handler[t].message.text)

\* C2: every token submission that handle_message handles is gated by the rate
\* limiter: can_attempt is consulted before it is accepted and record_attempt
\* is called after its outcome.  Every method of rate_limiter starts with
\* _ensure_table_exists, so a limiter that was consulted is initialized.
C2_SubmissionsAreRateLimited ==
    \A t \in Tasks :
        SubmissionDone(t) =>
            /\ limiter_initialized
            /\ recorded[handler[t].message.from_user].failed
                 + recorded[handler[t].message.from_user].succeeded >= 1

\* Every stored token is one the service accepted in a probe of its identity
StoredWereProbed ==
    \A r \in user_tokens : <<r.telegram_user_id, r.todoist_token>> \in probed

\* C3: a token is stored for an identity only after the get_projects probe made
\* with that token has succeeded; after a successful probe the stored token is
\* the submitted one, so that has_token is true; a failed probe leaves what is
\* stored unchanged.
C3_StoredOnlyAfterProbe ==
    /\ StoredWereProbed
    /\ [][/\ StoredWereProbed'
          /\ \A t \in Tasks :
                LET submitted == handler[t].message
                IN  /\ (handler[t].pc = "get_projects" /\ handler'[t].pc = "store_token")
                        => <<submitted.from_user, submitted.text>> \in probed'
                    /\ (handler[t].pc = "store_token" /\ handler'[t].pc = "done")
                        => /\ get_token(user_tokens', submitted.from_user)
                                = submitted.text
                           /\ has_token(user_tokens', submitted.from_user)
                           /\ handler'[t].reply = <<"saved">>
                    /\ (handler[t].pc = "get_projects" /\ handler'[t].pc = "done")
                        => /\ user_tokens' = user_tokens
                           /\ handler'[t].reply[1] = "invalid_token"]_vars

\* One submission of an identity was stored after its probe and another one of
\* the same identity was refused after its probe failed
C3_Witness ==
    \E t1, t2 \in Tasks :
        /\ SubmissionDone(t1)
        /\ handler[t1].reply = <<"saved">>
        /\ SubmissionDone(t2)
        /\ handler[t2].reply[1] = "invalid_token"
        /\ handler[t1].message.from_user = handler[t2].message.from_user
        /\ get_token(user_tokens, handler[t1].message.from_user)
             = handler[t1].message.text

\* The tasks the service holds that came from one inbound message
TasksFor(user_id, message_id) ==
    {x \in created_for : x.from_user = user_id /\ x.message_id = message_id}

\* C4: the create calls of two runs of handle_message for the same (identity,
\* message), one after the other or concurrent, carry the same idempotency
\* key, so the service that de-duplicates by key holds at most one task
\* for the message and answers both runs with that task.
C4_DuplicatesCreateOneTask ==
    /\ \A c1, c2 \in create_calls :
          (c1.from_user = c2.from_user /\ c1.message_id = c2.message_id) =>
              /\ "X-Request-Id" \in DOMAIN c1.headers
              /\ "X-Request-Id" \in DOMAIN c2.headers
              /\ c1.headers["X-Request-Id"] = c2.headers["X-Request-Id"]
    /\ \A u \in Users, m \in MessageIds : Cardinality(TasksFor(u, m)) <= 1
    /\ \A t1, t2 \in Tasks :
          (/\ handler[t1].pc = "done" /\ handler[t1].reply[1] = "created"
           /\ handler[t2].pc = "done" /\ handler[t2].reply[1] = "created"
           /\ handler[t1].message = handler[t2].message)
          => handler[t1].reply[2].id = handler[t2].reply[2].id

\* Two concurrent runs for one inbound message have both created "their" task
C4_Witness ==
    \E t1, t2 \in Tasks :
        /\ t1 # t2
        /\ handler[t1].pc = "done" /\ handler[t1].reply[1] = "created"
        /\ handler[t2].pc = "done" /\ handler[t2].reply[1] = "created"
        /\ handler[t1].message = handler[t2].message
        /\ handler[t1].raced
        /\ Cardinality(TasksFor(handler[t1].message.from_user,
                                handler[t1].message.message_id)) = 1

(***************************************************************************)
(* Claims about the Todoist client, checked under SpecClient.              *)
(***************************************************************************)
\* The create_task calls made on the client value so far
CreateCalls == {i \in DOMAIN client_log : client_log[i].op = "create_task"}

\* C12: every create_task call on one client value sends exactly one
\* authenticated POST whose idempotency key is the one of the task it is
\* given: a task without request_id is sent without X-Request-Id, and the key
\* of an earlier call is never sent with a later one.
C12_EachCallSendsItsOwnKey ==
    \A i \in CreateCalls :
        LET e == client_log[i]
            sent == e.requests[1].headers
        IN  /\ Len(e.requests) = 1
            /\ sent["Authorization"] = Bearer(one_client.token)
            /\ IF Truthy(e.task.request_id)
               THEN /\ "X-Request-Id" \in DOMAIN sent
                    /\ sent["X-Request-Id"] = e.task.request_id
               ELSE "X-Request-Id" \notin DOMAIN sent

\* The behaviour of the stub service that an answer shows
StubBehaviour(answer) ==
    IF answer.kind = "timeout" THEN "no_response"
    ELSE IF answer.kind = "connect_error" THEN "no_connection"
    ELSE IF answer.status_code = 401 THEN "status_401"
    ELSE IF answer.status_code = 403 THEN "status_403"
    ELSE IF answer.status_code \notin 200..299 THEN "other_status"
    ELSE IF ~(TaskFields \subseteq DOMAIN answer.json) THEN "missing_field"
    ELSE "task"

\* The five behaviours that the failure taxonomy of create_task names
FailingBehaviours ==
    {"status_401", "status_403", "no_response", "other_status", "missing_field"}

\* C13: create_task maps HTTP 401, HTTP 403, no response within the timeout,
\* any other non-2xx status and a 2xx answer with a required field missing to
\* five failures that the caller can tell apart, the fourth carrying the
\* status code: no two of the behaviours give the same outcome value.
C13_FailuresAreToldApart ==
    \A i, j \in CreateCalls :
        LET a == client_log[i].answer
            r == client_log[i].result
            b == client_log[j].answer
            q == client_log[j].result
        IN  /\ StubBehaviour(a) \in FailingBehaviours => ~r.ok
            /\ StubBehaviour(a) = "other_status" =>
                    Len(r.error) = 2 /\ r.error[2] = a.status_code
            /\ (/\ StubBehaviour(a) \in FailingBehaviours
                /\ StubBehaviour(b) \in FailingBehaviours
                /\ StubBehaviour(a) # StubBehaviour(b)) => r # q
            /\ (/\ StubBehaviour(a) \in FailingBehaviours
                /\ StubBehaviour(a) = StubBehaviour(b)
                /\ StubBehaviour(a) # "other_status") => r = q

\* One client value got a 2xx answer with a field missing and a 403
C13_Witness ==
    \E i, j \in CreateCalls :
        /\ StubBehaviour(client_log[i].answer) = "missing_field"
        /\ StubBehaviour(client_log[j].answer) = "status_403"
        /\ ~client_log[i].result.ok
        /\ ~client_log[j].result.ok

\* The failure that stands for Unavailable: the one create_task raises for a
\* POST that timed out
Unavailable ==
    [ok |-> FALSE,
     error |-> <<"Todoist service is currently unavailable (timeout)">>]

\* C21: every create_task and get_projects call ends with a result or with a
\* failure of the taxonomy, never a raw transport exception, and a call that
\* the remote side never answered ends, by the timeout, as Unavailable.
C21_UnansweredCallsEndUnavailable ==
    \A i \in DOMAIN client_log :
        /\ DOMAIN client_log[i].result \in {{"ok", "value"}, {"ok", "error"}}
        /\ StubBehaviour(client_log[i].answer) = "no_response"
                => client_log[i].result = Unavailable

\* C22: a TodoistTask built without a priority has priority 3, one built with
\* a priority keeps it, and create_task sends the task's priority unchanged.
C22_DefaultPriorityIsThree ==
    \A i \in CreateCalls :
        LET e == client_log[i]
        IN  /\ "priority" \notin DOMAIN e.kwargs => e.task.priority = 3
            /\ "priority" \in DOMAIN e.kwargs
                    => e.task.priority = e.kwargs.priority
            /\ e.requests[1].json.priority = e.task.priority

\* C14: a network failure of create_task that is not a timeout (the
\* connection cannot be established) gives the outcome of a timeout, and an
\* outcome different from the one of a 2xx answer with a field missing.
C14_ConnectFailureIsUnavailable ==
    \A i, j \in CreateCalls :
        StubBehaviour(client_log[i].answer) = "no_connection" =>
            /\ ~client_log[i].result.ok
            /\ StubBehaviour(client_log[j].answer) = "no_response"
                    => client_log[i].result = client_log[j].result
            /\ StubBehaviour(client_log[j].answer) = "missing_field"
                    => client_log[i].result # client_log[j].result

\* The get_projects calls made on the client value so far
ProbeCalls == {i \in DOMAIN client_log : client_log[i].op = "get_projects"}

\* C15: get_projects reports a probe answered 401, a probe answered 403 and a
\* probe that timed out as three different failures.
C15_ProbeFailuresAreToldApart ==
    \A i, j \in ProbeCalls :
        LET a == StubBehaviour(client_log[i].answer)
            b == StubBehaviour(client_log[j].answer)
        IN  /\ a \in {"status_401", "status_403", "no_response"}
                    => ~client_log[i].result.ok
            /\ (/\ a \in {"status_401", "status_403", "no_response"}
                /\ b \in {"status_401", "status_403", "no_response"}
                /\ a # b) => client_log[i].result # client_log[j].result

(***************************************************************************)
(* Claims about the bot on a failing storage medium, checked under         *)
(* SpecOutage.                                                             *)
(***************************************************************************)
\* The task takes the step that ends its await at `pc'
Leaves(t, pc) ==
    /\ handler[t].pc = pc
    /\ handler'[t].pc # pc

\* C16: the retrieval of the token before a task is created never reports a
\* storage failure as "no token": when handle_message finds get_token absent,
\* no token is stored for the identity.
C16_AbsentMeansNotStored ==
    [][\A t \in Tasks :
         (Leaves(t, "get_token") /\ handler'[t].reply[1] = "token_error")
            => TokenRowsOf(user_tokens, handler[t].message.from_user) = {}]_vars

\* C17: when the storage medium fails during store_token, the call raises,
\* what is stored is unchanged and the user is not told that the token was
\* saved; when the medium is available store_token succeeds and the user is
\* told so.
C17_FailedUpsertIsNotReportedSaved ==
    [][\A t \in Tasks :
         Leaves(t, "store_token") =>
            LET u == handler[t].message.from_user
                saved == handler'[t].reply[1] = "saved"
            IN  /\ storage_fault = "none" => saved
                /\ storage_fault \in {"connect", "statement"} => ~saved
                /\ (storage_fault = "create_table" /\ ~storage_initialized)
                        => ~saved
                /\ saved => get_token(user_tokens', u) = handler[t].message.text
                /\ ~saved => /\ user_tokens' = user_tokens
                              /\ handler'[t].reply[1] = "invalid_token"]_vars

\* A submission whose probe was accepted and whose store_token raised: the
\* user was told of the error and nothing is stored for the identity
C17_Witness ==
    \E t \in Tasks :
        /\ handler[t].pc = "done"
        /\ handler[t].reply = <<"invalid_token", <<"sqlite3.Error">>>>
        /\ <<handler[t].message.from_user, handler[t].message.text>> \in probed
        /\ TokenRowsOf(user_tokens, handler[t].message.from_user) = {}

\* C18: has_token fails closed: whatever the storage error (the connection
\* cannot be opened, the table cannot be created, the query fails) it returns
\* False and does not raise, and it never returns True for an identity
\* without a stored token.
C18_ExistsFailsClosed ==
    [][\A t \in Tasks :
         Leaves(t, "has_token") =>
            /\ handler'[t].reply[1] # "unhandled_exception"
            /\ handler'[t].pc = "get_token" =>
                  TokenRowsOf(user_tokens, handler[t].message.from_user) # {}]_vars

\* The create calls made for the inbound message that the task handles
CreateCallsOf(t) ==
    {c \in create_calls : /\ c.from_user = handler[t].message.from_user
                          /\ c.message_id = handler[t].message.message_id}

\* C20: handle_message calls create_task only with a client built from the
\* token that was stored for the sending identity when it was retrieved, never
\* with another identity's token, and makes no create call when the token was
\* removed between has_token and get_token.
C20_CreateUsesTheStoredToken ==
    /\ [](\A c \in create_calls :
            \E token \in Tokens :
                /\ <<c.from_user, token>> \in probed
                /\ c.headers["Authorization"] = Bearer(token))
    /\ [][\A t \in Tasks :
            LET u == handler[t].message.from_user
            IN  /\ (Leaves(t, "get_token") /\ handler'[t].pc = "create_task")
                    => \E r \in TokenRowsOf(user_tokens, u) :
                          r.todoist_token = handler'[t].todoist_token
                /\ (Leaves(t, "get_token") /\ TokenRowsOf(user_tokens, u) = {})
                    => /\ handler'[t].pc = "done"
                       /\ create_calls' = create_calls
                /\ Leaves(t, "create_task")
                    => \E c \in create_calls' :
                          /\ c.from_user = u
                          /\ c.message_id = handler[t].message.message_id
                          /\ c.headers["Authorization"]
                                = Bearer(handler[t].todoist_token)]_vars

\* A task text whose sender's token was removed between has_token and
\* get_token: no create call was made for it, although another identity's
\* token is stored
C20_Witness ==
    \E t \in Tasks :
        /\ handler[t].pc = "done"
        /\ handler[t].removed_meanwhile
        /\ handler[t].reply[1] = "token_error"
        /\ CreateCallsOf(t) = {}
        /\ user_tokens # {}

(***************************************************************************)
(* Claims about the two branches of handle_message, checked under SpecBot. *)
(***************************************************************************)
\* The steps of the token branch and of the task branch
TokenBranch == {"get_projects", "store_token"}
TaskBranch == {"has_token", "get_token", "create_task"}

\* The task is handling a message that is a token submission
HandlesSubmission(t) ==
    /\ handler[t].pc \notin {"idle"}
    /\ token_regex_search(handler[t].message.text)

\* C26: a message that is a token submission never leads to a create call,
\* whether its probe succeeds or fails and whether or not the identity has a
\* stored token; each message leads to at most one of a token upsert and a
\* create call; a message that is no token submission never changes the token
\* store.
C26_SubmissionNeverCreatesATask ==
    /\ [](\A c \in create_calls : ~token_regex_search(TextOf(c.message_id)))
    /\ [](\A t \in Tasks :
            /\ handler[t].pc \in TokenBranch => HandlesSubmission(t)
            /\ handler[t].pc \in TaskBranch => ~HandlesSubmission(t))
    /\ [][\A t \in Tasks :
            handler'[t].pc # handler[t].pc =>
                /\ IF token_regex_search(handler'[t].message.text)
                   THEN /\ handler'[t].pc \in TokenBranch \cup {"done"}
                        /\ create_calls' = create_calls
                        /\ todoist_tasks' = todoist_tasks
                   ELSE /\ handler'[t].pc \in TaskBranch \cup {"done"}
                        /\ user_tokens' = user_tokens
                /\ handler[t].pc = "store_token" =>
                      /\ handler'[t].pc = "done"
                      /\ create_calls' = create_calls
                /\ handler[t].pc = "create_task" =>
                      /\ handler'[t].pc = "done"
                      /\ user_tokens' = user_tokens
                /\ user_tokens' # user_tokens => handler[t].pc = "store_token"
                /\ create_calls' # create_calls => handler[t].pc = "create_task"]_vars

\* An identity with a stored token has had a submission refused by the probe
\* and another message turned into a task; no create call came from a
\* submission
C26_Witness ==
    \E t1, t2 \in Tasks :
        /\ handler[t1].pc = "done"
        /\ HandlesSubmission(t1)
        /\ handler[t1].reply[1] = "invalid_token"
        /\ has_token(user_tokens, handler[t1].message.from_user)
        /\ handler[t2].pc = "done"
        /\ handler[t2].message.from_user = handler[t1].message.from_user
        /\ handler[t2].reply[1] = "created"
        /\ create_calls # {}

====
